---- MODULE Spec2Model ----
(***************************************************************************)
(* Model of synapse/server_notices/server_notices_manager.py:              *)
(* ServerNoticesManager.send_notice and get_notice_room_for_user, the      *)
(* per-user memoisation of the latter, and the collaborators they call     *)
(* (membership store, room creation handler, event creation handler).      *)
(*                                                                         *)
(* Every coroutine runs synchronously up to its next yield of a            *)
(* collaborator call, so one action is: a caller starting a call, or one   *)
(* collaborator call returning or failing, followed by everything the      *)
(* resumed coroutines do up to their next yield.                           *)
(***************************************************************************)
EXTENDS Integers, Sequences, FiniteSets, TLC

\* ---------------------------------------------------------------- bounds
MaxCalls == 2      \* calls of send_notice / get_notice_room_for_user started
InitRooms == 2     \* rooms that exist before the manager is constructed
MaxLeaves == 1     \* membership removals done by the rest of the server

\* ------------------------------------------------------------ identifiers
Users == {"u1", "u2"}
Contents == {"hello", "bye"}
FirstUser == "u1"      \* the user that is in rooms before the manager exists
SYS == "@notices"
None == "None"
Nil == 0
CallIds == 1..MaxCalls
RoomIds == 1..(InitRooms + MaxCalls)

server_notices_room_name == "Server Notices"
server_notices_mxid_display_name == "Notices"

NoOutcomeErr == "none"

VARIABLES
    server_notices_mxid, \* hs.config.server_notices_mxid: SYS or None
    rooms_of,            \* store: user -> rooms with invite/join membership, in store order
    users_in,            \* store: room -> set of user ids in the room
    created,             \* number of rooms the room creation handler has made
    leaves,              \* number of membership removals so far
    cache,               \* memoisation table of get_notice_room_for_user
    calls,               \* call id -> the caller's coroutine
    comps,               \* call id -> the resolution computation that call started
    createLog,           \* call id -> create_room calls its resolution has issued
    eventLog,            \* call id -> create_and_send_nonmember_event calls it has issued
    returned             \* user -> room ids get_notice_room_for_user has returned

vars == <<server_notices_mxid, rooms_of, users_in, created, leaves, cache,
          calls, comps, createLog, eventLog, returned>>

\* ------------------------------------------------------------ decorators
\* line 61: the decorator that wraps get_notice_room_for_user
DecoratorPlain == "inlineCallbacks"
Decorator == "cachedInlineCallbacks"

\* ---------------------------------------------------------- memoisation
EmptyEntry == [state |-> "empty", owner |-> 0, room |-> Nil]

\* lines 61-62: the cache is keyed by the argument of the decorated function
CacheKeyShared(u) == FirstUser
CacheKey(u) == u

CacheLookup(u) ==
    IF Decorator = "cachedInlineCallbacks" THEN cache[CacheKey(u)] ELSE EmptyEntry

CachePending(u, c) ==
    IF Decorator = "cachedInlineCallbacks"
    THEN [cache EXCEPT ![CacheKey(u)] = [state |-> "pending", owner |-> c, room |-> Nil]]
    ELSE cache

CacheResolved(u, r) ==
    IF Decorator = "cachedInlineCallbacks"
    THEN [cache EXCEPT ![CacheKey(u)] = [state |-> "done", owner |-> 0, room |-> r]]
    ELSE cache

CacheFailed(u) == [cache EXCEPT ![CacheKey(u)] = EmptyEntry]

\* ------------------------------------------------------------- the code
is_enabledAlways == TRUE
is_enabled == server_notices_mxid # None

create_requester(mxid) == [user |-> mxid]

\* outcome of a coroutine: a returned value or a raised exception
Returned(r) == [ok |-> TRUE, room |-> r, err |-> NoOutcomeErr]
RaisedSwallowed(e) == [ok |-> TRUE, room |-> Nil, err |-> NoOutcomeErr]
Raised(e) == [ok |-> FALSE, room |-> Nil, err |-> e]

\* lines 92-106: the arguments of create_room
CreateRoomArgsRatelimited(c, u) ==
    [by |-> c,
     requester |-> create_requester(server_notices_mxid),
     preset |-> "private_chat",
     name |-> server_notices_room_name,
     users_default |-> -10,
     invite |-> <<u>>,
     ratelimit |-> TRUE,
     displayname |-> server_notices_mxid_display_name]
CreateRoomArgs(c, u) ==
    [by |-> c,
     requester |-> create_requester(server_notices_mxid),
     preset |-> "private_chat",
     name |-> server_notices_room_name,
     users_default |-> -10,
     invite |-> <<u>>,
     ratelimit |-> FALSE,
     displayname |-> server_notices_mxid_display_name]

\* lines 51-59: the arguments of create_and_send_nonmember_event
MessageEventFixedContent(c, content, room) ==
    [by |-> c,
     requester |-> create_requester(server_notices_mxid),
     type |-> "m.room.message",
     room_id |-> room,
     sender |-> server_notices_mxid,
     content |-> "hello",
     ratelimit |-> FALSE]
MessageEvent(c, content, room) ==
    [by |-> c,
     requester |-> create_requester(server_notices_mxid),
     type |-> "m.room.message",
     room_id |-> room,
     sender |-> server_notices_mxid,
     content |-> content,
     ratelimit |-> FALSE]

NoCall == [kind |-> "none", user |-> None, content |-> None, pc |-> "unused",
           room |-> Nil, err |-> NoOutcomeErr, attached |-> 0,
           overlap |-> {}, after |-> {}, afterFail |-> {}, stale |-> FALSE,
           afterEventFail |-> {}]

NoComp == [user |-> None, pc |-> "none", rooms |-> <<>>, idx |-> 0,
           roomsQueries |-> 0, queried |-> <<>>, matched |-> FALSE,
           shared0 |-> {}, searchEnded |-> FALSE, stableShared |-> {},
           ioFailed |-> FALSE, err |-> NoOutcomeErr, room |-> Nil, info |-> Nil]

\* ------------------------------------------------------- helper operators
Range(s) == {s[i] : i \in 1..Len(s)}

InjSeqs(S) ==
    {s \in UNION {[1..n -> S] : n \in 0..Cardinality(S)} :
        \A i, j \in 1..Len(s) : i # j => s[i] # s[j]}

\* rooms the user has invite/join membership in and that contain the system account
SharedRooms(u) == {r \in Range(rooms_of[u]) : SYS \in users_in[r]}

NextCall == Cardinality({c \in CallIds : calls[c].pc # "unused"}) + 1

CollaboratorErrors == {"StoreError", "CreateError"}
ResolutionErrors == {"NotEnabled"} \cup CollaboratorErrors

\* line 82: the membership test
SystemInRoomNever(user_ids) == FALSE
SystemInRoom(user_ids) == server_notices_mxid \in user_ids

\* lines 44-51: send_notice resumed with the outcome of get_notice_room_for_user
send_notice_after_roomRecover(cr, out) ==
    IF out.ok
    THEN [cr EXCEPT !.pc = "await_event", !.room = out.room]
    ELSE [cr EXCEPT !.pc = "await_event", !.room = Nil]
send_notice_after_room(cr, out) ==
    IF out.ok
    THEN [cr EXCEPT !.pc = "await_event", !.room = out.room]
    ELSE [cr EXCEPT !.pc = "failed", !.err = out.err]

\* lines 51-59: send_notice resumed with the outcome of the event creation handler
send_notice_after_event(cr, ok) ==
    IF ok
    THEN [cr EXCEPT !.pc = "done"]
    ELSE [cr EXCEPT !.pc = "failed", !.err = "EventError"]

\* a caller of get_notice_room_for_user resumed with its outcome
ResumeCallerDropFailure(cr, out) ==
    IF ~out.ok
    THEN cr
    ELSE IF cr.kind = "send"
         THEN send_notice_after_room(cr, out)
         ELSE [cr EXCEPT !.pc = "done", !.room = out.room]
ResumeCaller(cr, out) ==
    IF cr.kind = "send"
    THEN send_notice_after_room(cr, out)
    ELSE IF out.ok
         THEN [cr EXCEPT !.pc = "done", !.room = out.room]
         ELSE [cr EXCEPT !.pc = "failed", !.err = out.err]

\* the event log after the callers in W have each submitted their event
EventsFor(W, cs) ==
    [d \in CallIds |->
        IF d \in W
        THEN Append(eventLog[d], MessageEvent(d, cs[d].content, cs[d].room))
        ELSE eventLog[d]]

\* the resolution started by call o ends with outcome out: the memoisation
\* table is updated and every caller waiting on it is resumed
Complete(o, cp, out, cs) ==
    LET u == cp.user
        waiting == {d \in CallIds : cs[d].pc = "await_room" /\ cs[d].attached = o}
        ncs == [d \in CallIds |->
                  IF d \in waiting THEN ResumeCaller(cs[d], out) ELSE cs[d]]
    IN  /\ comps' = [comps EXCEPT ![o] =
                        [cp EXCEPT !.pc = IF out.ok THEN "done" ELSE "failed",
                                   !.err = out.err, !.room = out.room]]
        /\ cache' = IF out.ok THEN CacheResolved(u, out.room) ELSE CacheFailed(u)
        /\ calls' = ncs
        /\ eventLog' = EventsFor({d \in waiting : ncs[d].pc = "await_event"}, ncs)
        /\ returned' = IF out.ok
                       THEN [returned EXCEPT ![u] = @ \cup {out.room}]
                       ELSE returned

\* lines 80-92: the loop over rooms from position cp.idx, up to the next yield
ScanEager(c, cp) ==
    /\ comps' = [comps EXCEPT ![c] =
           [cp EXCEPT !.pc = "create", !.searchEnded = TRUE,
                      !.stableShared = cp.shared0 \cap SharedRooms(cp.user)]]
    /\ createLog' = [createLog EXCEPT ![c] = Append(@, CreateRoomArgs(c, cp.user))]
Scan(c, cp) ==
    IF cp.idx <= Len(cp.rooms)
    THEN /\ comps' = [comps EXCEPT ![c] =
                [cp EXCEPT !.pc = "users", !.queried = Append(@, cp.rooms[cp.idx])]]
         /\ UNCHANGED createLog
    ELSE /\ comps' = [comps EXCEPT ![c] =
                [cp EXCEPT !.pc = "create", !.searchEnded = TRUE,
                           !.stableShared = cp.shared0 \cap SharedRooms(cp.user)]]
         /\ createLog' = [createLog EXCEPT ![c] = Append(@, CreateRoomArgs(c, cp.user))]

\* ------------------------------------------------------------------ Init
Init ==
    /\ server_notices_mxid \in {SYS, None}
    /\ \E s \in InjSeqs(1..InitRooms) :
         rooms_of = [u \in Users |-> IF u = FirstUser THEN s ELSE <<>>]
    /\ \E S \in SUBSET Range(rooms_of[FirstUser]) :
         users_in = [r \in RoomIds |->
                       {u \in Users : r \in Range(rooms_of[u])}
                       \cup (IF r \in S THEN {SYS} ELSE {})]
    /\ created = 0
    /\ leaves = 0
    /\ cache = [u \in Users |-> EmptyEntry]
    /\ calls = [c \in CallIds |-> NoCall]
    /\ comps = [c \in CallIds |-> NoComp]
    /\ createLog = [c \in CallIds |-> <<>>]
    /\ eventLog = [c \in CallIds |-> <<>>]
    /\ returned = [u \in Users |-> {}]

\* --------------------------------------------------------------- actions
\* a caller starts send_notice (kind "send") or get_notice_room_for_user ("get")
StartCall(kind, u, content) ==
    /\ NextCall <= MaxCalls
    /\ LET c == NextCall
           e == CacheLookup(u)
           base == [NoCall EXCEPT
                      !.kind = kind, !.user = u, !.content = content,
                      !.pc = "await_room",
                      !.overlap = {d \in CallIds : calls[d].user = u
                                                   /\ calls[d].pc = "await_room"},
                      !.after = {d \in CallIds : calls[d].user = u
                                                 /\ calls[d].room # Nil},
                      !.afterFail = {d \in CallIds : calls[d].user = u
                                                     /\ calls[d].pc = "failed"
                                                     /\ calls[d].err \in CollaboratorErrors},
                      !.afterEventFail = {d \in CallIds : calls[d].user = u
                                                          /\ calls[d].err = "EventError"},
                      !.stale = \E d \in CallIds :
                                   /\ calls[d].user = u
                                   /\ calls[d].room # Nil
                                   /\ \/ calls[d].room \notin Range(rooms_of[u])
                                      \/ SYS \notin users_in[calls[d].room]]
       IN  CASE e.state = "done" ->
                 \* cache hit: the cached value is returned at once
                 LET cr == ResumeCaller(base, Returned(e.room))
                     cs == [calls EXCEPT ![c] = cr]
                 IN  /\ calls' = cs
                     /\ eventLog' = EventsFor(IF cr.pc = "await_event" THEN {c} ELSE {}, cs)
                     /\ returned' = [returned EXCEPT ![u] = @ \cup {e.room}]
                     /\ UNCHANGED <<cache, comps, createLog>>
             [] e.state = "pending" ->
                 \* attach to the resolution in flight
                 /\ calls' = [calls EXCEPT ![c] = [base EXCEPT !.attached = e.owner]]
                 /\ UNCHANGED <<cache, comps, createLog, eventLog, returned>>
             [] e.state = "empty" ->
                 \* cache miss: run the function up to its first yield
                 LET cs == [calls EXCEPT ![c] = [base EXCEPT !.attached = c]]
                     cp == [NoComp EXCEPT !.user = u, !.shared0 = SharedRooms(u)]
                 IN  IF ~is_enabled
                     THEN /\ Complete(c, cp, Raised("NotEnabled"), cs)
                          /\ UNCHANGED createLog
                     ELSE /\ comps' = [comps EXCEPT ![c] =
                                 [cp EXCEPT !.pc = "rooms", !.roomsQueries = 1]]
                          /\ cache' = CachePending(u, c)
                          /\ calls' = cs
                          /\ UNCHANGED <<createLog, eventLog, returned>>
    /\ UNCHANGED <<server_notices_mxid, rooms_of, users_in, created, leaves>>

Call_get_notice_room_for_user ==
    \E u \in Users : StartCall("get", u, None)

Call_send_notice ==
    \E u \in Users, content \in Contents : StartCall("send", u, content)

\* get_rooms_for_user_where_membership_is returns (lines 76-81)
RoomsReturnReversed(c) ==
    /\ comps[c].pc = "rooms"
    /\ LET rs == rooms_of[comps[c].user]
       IN  Scan(c, [comps[c] EXCEPT
                      !.rooms = [i \in 1..Len(rs) |-> rs[Len(rs) + 1 - i]],
                      !.idx = 1])
    /\ UNCHANGED <<server_notices_mxid, rooms_of, users_in, created, leaves,
                   cache, calls, eventLog, returned>>
RoomsReturn(c) ==
    /\ comps[c].pc = "rooms"
    /\ Scan(c, [comps[c] EXCEPT !.rooms = rooms_of[comps[c].user], !.idx = 1])
    /\ UNCHANGED <<server_notices_mxid, rooms_of, users_in, created, leaves,
                   cache, calls, eventLog, returned>>

\* get_users_in_room returns (lines 81-86)
UsersReturn(c) ==
    /\ comps[c].pc = "users"
    /\ LET cp == comps[c]
           room == cp.rooms[cp.idx]
           user_ids == users_in[room]
       IN  IF SystemInRoom(user_ids)
           THEN /\ Complete(c, [cp EXCEPT !.matched = TRUE, !.searchEnded = TRUE,
                                   !.stableShared = cp.shared0 \cap SharedRooms(cp.user)],
                            Returned(room), calls)
                /\ UNCHANGED createLog
           ELSE /\ Scan(c, [cp EXCEPT !.idx = @ + 1])
                /\ UNCHANGED <<cache, calls, eventLog, returned>>
    /\ UNCHANGED <<server_notices_mxid, rooms_of, users_in, created, leaves>>

\* a store query fails
StoreFail(c) ==
    /\ comps[c].pc \in {"rooms", "users"}
    /\ Complete(c, [comps[c] EXCEPT !.ioFailed = TRUE], Raised("StoreError"), calls)
    /\ UNCHANGED <<server_notices_mxid, rooms_of, users_in, created, leaves, createLog>>

\* create_room returns the new room (lines 92-110)
CreateReturn(c) ==
    /\ comps[c].pc = "create"
    /\ LET room_id == InitRooms + created + 1
           u == comps[c].user
       IN  /\ created' = created + 1
           /\ users_in' = [users_in EXCEPT ![room_id] = {SYS}]
           /\ rooms_of' = [rooms_of EXCEPT ![u] = Append(@, room_id)]
           /\ Complete(c, [comps[c] EXCEPT !.info = room_id], Returned(room_id), calls)
    /\ UNCHANGED <<server_notices_mxid, leaves, createLog>>

\* create_room fails
CreateFail(c) ==
    /\ comps[c].pc = "create"
    /\ Complete(c, [comps[c] EXCEPT !.ioFailed = TRUE], Raised("CreateError"), calls)
    /\ UNCHANGED <<server_notices_mxid, rooms_of, users_in, created, leaves, createLog>>

\* create_and_send_nonmember_event returns
EventReturn(c) ==
    /\ calls[c].pc = "await_event"
    /\ calls' = [calls EXCEPT ![c] = send_notice_after_event(@, TRUE)]
    /\ UNCHANGED <<server_notices_mxid, rooms_of, users_in, created, leaves, cache,
                   comps, createLog, eventLog, returned>>

\* create_and_send_nonmember_event fails
EventFail(c) ==
    /\ calls[c].pc = "await_event"
    /\ calls' = [calls EXCEPT ![c] = send_notice_after_event(@, FALSE)]
    /\ UNCHANGED <<server_notices_mxid, rooms_of, users_in, created, leaves, cache,
                   comps, createLog, eventLog, returned>>

\* the rest of the server: a user leaves a room
UserLeaves(u, r) ==
    /\ leaves < MaxLeaves
    /\ r \in Range(rooms_of[u])
    /\ leaves' = leaves + 1
    /\ rooms_of' = [rooms_of EXCEPT ![u] = SelectSeq(@, LAMBDA x : x # r)]
    /\ users_in' = [users_in EXCEPT ![r] = @ \ {u}]
    /\ UNCHANGED <<server_notices_mxid, created, cache, calls, comps, createLog,
                   eventLog, returned>>

\* the rest of the server: the system account leaves a room
SystemLeaves(r) ==
    /\ leaves < MaxLeaves
    /\ SYS \in users_in[r]
    /\ leaves' = leaves + 1
    /\ users_in' = [users_in EXCEPT ![r] = @ \ {SYS}]
    /\ UNCHANGED <<server_notices_mxid, rooms_of, created, cache, calls, comps,
                   createLog, eventLog, returned>>

Next ==
    \/ Call_get_notice_room_for_user
    \/ Call_send_notice
    \/ \E c \in CallIds : RoomsReturn(c)
    \/ \E c \in CallIds : UsersReturn(c)
    \/ \E c \in CallIds : StoreFail(c)
    \/ \E c \in CallIds : CreateReturn(c)
    \/ \E c \in CallIds : CreateFail(c)
    \/ \E c \in CallIds : EventReturn(c)
    \/ \E c \in CallIds : EventFail(c)
    \/ \E u \in Users, r \in RoomIds : UserLeaves(u, r)
    \/ \E r \in RoomIds : SystemLeaves(r)

Spec == Init /\ [][Next]_vars

\* the resolver alone: callers of get_notice_room_for_user, the store and
\* the room creation handler, while memberships change
NextResolver ==
    \/ Call_get_notice_room_for_user
    \/ \E c \in CallIds : RoomsReturn(c)
    \/ \E c \in CallIds : UsersReturn(c)
    \/ \E c \in CallIds : StoreFail(c)
    \/ \E c \in CallIds : CreateReturn(c)
    \/ \E c \in CallIds : CreateFail(c)
    \/ \E u \in Users, r \in RoomIds : UserLeaves(u, r)
    \/ \E r \in RoomIds : SystemLeaves(r)

SpecResolver == Init /\ [][NextResolver]_vars

\* the dispatcher over the resolver: callers of send_notice and of
\* get_notice_room_for_user and all collaborators, memberships unchanged
NextDispatcher ==
    \/ Call_get_notice_room_for_user
    \/ Call_send_notice
    \/ \E c \in CallIds : RoomsReturn(c)
    \/ \E c \in CallIds : UsersReturn(c)
    \/ \E c \in CallIds : StoreFail(c)
    \/ \E c \in CallIds : CreateReturn(c)
    \/ \E c \in CallIds : CreateFail(c)
    \/ \E c \in CallIds : EventReturn(c)
    \/ \E c \in CallIds : EventFail(c)

SpecDispatcher == Init /\ [][NextDispatcher]_vars


\* ----------------------------------------------------------- properties
InFlight == {"rooms", "users", "create"}

\* C1: callers that start get_notice_room_for_user for a user while a
\* resolution for that user is in flight share that one computation: they
\* start none of their own, the computation issues one rooms-for-user query
\* and at most one create_room call, they complete together, and those that
\* have received a room id received the same one.
C1_SingleFlight ==
    \A c2 \in CallIds : \A c1 \in calls[c2].overlap :
        LET o == calls[c1].attached
        IN  /\ calls[c2].attached = o
            /\ c2 # o => comps[c2].pc = "none"
            /\ comps[o].roomsQueries = 1
            /\ Len(createLog[o]) <= 1
            /\ (calls[c1].pc = "await_room") <=> (calls[c2].pc = "await_room")
            /\ calls[c1].room = calls[c2].room

C1_Witness ==
    \E c2 \in CallIds : \E c1 \in calls[c2].overlap :
        /\ calls[c1].pc = "done" /\ calls[c2].pc = "done"
        /\ calls[c1].room # Nil /\ calls[c1].room = calls[c2].room
        /\ Len(createLog[calls[c1].attached]) = 1

\* C2: a call of get_notice_room_for_user started after an earlier call for
\* the same user returned a room id returns that same room id, and makes no
\* create_room call.
C2_Idempotent ==
    \A c2 \in CallIds : \A c1 \in calls[c2].after :
        /\ calls[c2].room # Nil
        /\ calls[c2].room = calls[c1].room
        /\ createLog[c2] = <<>>

C2_Witness ==
    \E c2 \in CallIds : \E c1 \in calls[c2].after :
        /\ calls[c1].kind = "get" /\ calls[c2].kind = "get"
        /\ calls[c2].pc = "done"
        /\ calls[c2].room = calls[c1].room
        /\ Len(createLog[c1]) = 1

\* C3: for every user at most one room id has ever been returned, the cached
\* room id is that one, and once a room id is cached for a user no resolution
\* for that user is in flight or is started (so none calls create_room).
C3_CacheInvariant ==
    \A u \in Users :
        /\ Cardinality(returned[u]) <= 1
        /\ cache[u].state = "done" =>
              /\ returned[u] = {cache[u].room}
              /\ \A c \in CallIds : comps[c].user = u => comps[c].pc \notin InFlight
        /\ \A c \in CallIds :
              calls[c].user = u /\ calls[c].after # {} =>
                  /\ comps[c].pc = "none"
                  /\ createLog[c] = <<>>
                  /\ cache[u].state = "done"

C3_Witness ==
    \E u \in Users, c \in CallIds :
        /\ cache[u].state = "done"
        /\ calls[c].user = u /\ calls[c].after # {}
        /\ returned[u] = {calls[c].room}
        /\ \E d \in calls[c].after : Len(createLog[d]) = 1

\* C4: when the user shares a room with the system account from the start of
\* a resolution until its search ends, the search ends with a match: the
\* resolution returns a room of the user that contained the system account,
\* and it makes no create_room call.
C4_NoDuplicateCreation ==
    \A c \in CallIds :
        comps[c].searchEnded /\ comps[c].stableShared # {} =>
            /\ createLog[c] = <<>>
            /\ comps[c].matched
            /\ comps[c].pc = "done"
            /\ comps[c].room \in comps[c].shared0
            /\ comps[c].room \in Range(comps[c].rooms)

C4_Witness ==
    \E c \in CallIds :
        /\ comps[c].searchEnded /\ comps[c].stableShared # {}
        /\ comps[c].pc = "done" /\ comps[c].matched
        /\ calls[c].room = comps[c].room
        /\ Len(comps[c].rooms) = 2

\* C5: when no system notices account is configured, is_enabled is false and
\* every started call has failed with the not-enabled error without any
\* store query, create_room call or event submission.
C5_EnablementGate ==
    server_notices_mxid = None =>
        /\ ~is_enabled
        /\ \A c \in CallIds :
              calls[c].pc # "unused" =>
                  /\ calls[c].pc = "failed"
                  /\ calls[c].err = "NotEnabled"
                  /\ calls[c].room = Nil
                  /\ comps[c].roomsQueries = 0
                  /\ comps[c].queried = <<>>
                  /\ createLog[c] = <<>>
                  /\ eventLog[c] = <<>>

C5_Witness ==
    /\ server_notices_mxid = None
    /\ \E c \in CallIds : calls[c].kind = "get" /\ calls[c].pc = "failed"
    /\ \E c \in CallIds : calls[c].kind = "send" /\ calls[c].pc = "failed"

\* C6: a resolution in which a store query or create_room failed ends as a
\* failure and leaves no cache entry: the entry of its user is never owned by
\* it nor filled by it, and a call started after such a failure (with no
\* success before it and no resolution in flight) starts its own fresh
\* computation.
C6_NoPoison ==
    /\ \A c \in CallIds :
          comps[c].ioFailed =>
              /\ comps[c].pc = "failed"
              /\ comps[c].err \in CollaboratorErrors
              /\ cache[comps[c].user].owner # c
              /\ cache[comps[c].user].state = "done" =>
                    \E d \in CallIds \ {c} :
                        /\ comps[d].user = comps[c].user
                        /\ comps[d].pc = "done"
                        /\ comps[d].room = cache[comps[c].user].room
    /\ \A c2 \in CallIds :
          calls[c2].afterFail # {} /\ calls[c2].after = {} /\ calls[c2].overlap = {} =>
              /\ calls[c2].attached = c2
              /\ comps[c2].pc # "none"
              /\ comps[c2].roomsQueries = 1

C6_Witness ==
    \E c2 \in CallIds :
        /\ calls[c2].afterFail # {}
        /\ calls[c2].pc = "done" /\ calls[c2].room # Nil
        /\ comps[c2].pc = "done"
        /\ cache[calls[c2].user].room = calls[c2].room

\* C7: when a resolution fails in a collaborator, every caller attached to
\* it has failed with that same error, has received no room id, has started
\* no computation of its own and has submitted no event.
C7_SharedFailure ==
    \A o \in CallIds :
        comps[o].ioFailed =>
            \A c \in CallIds :
                calls[c].attached = o =>
                    /\ calls[c].pc = "failed"
                    /\ calls[c].err = comps[o].err
                    /\ calls[c].err \in CollaboratorErrors
                    /\ calls[c].room = Nil
                    /\ c # o => comps[c].pc = "none"
                    /\ eventLog[c] = <<>>

C7_Witness ==
    \E o \in CallIds, c \in CallIds :
        /\ c # o
        /\ comps[o].ioFailed
        /\ calls[c].attached = o /\ calls[o].attached = o
        /\ calls[c].pc = "failed" /\ calls[o].pc = "failed"

\* C8: a send_notice call submits no event before its room resolution has
\* completed, a successful one has submitted exactly one, and every event it
\* submits is a message event with sender the system account, room_id the
\* room the resolver returned for that user, content the caller's payload and
\* rate-limiting disabled.
C8_SendNotice ==
    \A c \in CallIds :
        /\ calls[c].kind # "send" => eventLog[c] = <<>>
        /\ calls[c].pc = "await_room" => eventLog[c] = <<>>
        /\ calls[c].kind = "send" /\ calls[c].pc = "done" => Len(eventLog[c]) = 1
        /\ \A i \in 1..Len(eventLog[c]) :
              LET e == eventLog[c][i]
              IN  /\ calls[c].room # Nil
                  /\ e.room_id = calls[c].room
                  /\ e.room_id \in returned[calls[c].user]
                  /\ e.type = "m.room.message"
                  /\ e.sender = SYS
                  /\ e.requester = create_requester(SYS)
                  /\ e.content = calls[c].content
                  /\ e.ratelimit = FALSE

C8_Witness ==
    \E c \in CallIds :
        /\ calls[c].kind = "send" /\ calls[c].pc = "done"
        /\ calls[c].content = "bye"
        /\ Len(eventLog[c]) = 1
        /\ eventLog[c][1].room_id = comps[c].room

\* C9: a send_notice call whose resolution failed has failed with the
\* resolver's error and has submitted no event; one whose event submission
\* failed has failed with that error after exactly one submission.
C9_NoLocalRecovery ==
    \A c \in CallIds :
        calls[c].kind = "send" =>
            /\ (calls[c].attached # 0 /\ comps[calls[c].attached].pc = "failed") =>
                  /\ calls[c].pc = "failed"
                  /\ calls[c].err = comps[calls[c].attached].err
                  /\ eventLog[c] = <<>>
            /\ calls[c].err = "EventError" =>
                  /\ calls[c].pc = "failed"
                  /\ Len(eventLog[c]) = 1
            /\ Len(eventLog[c]) <= 1

C9_Witness ==
    /\ \E c \in CallIds :
          /\ calls[c].kind = "send" /\ calls[c].pc = "failed"
          /\ calls[c].err \in CollaboratorErrors
    /\ \E c \in CallIds :
          /\ calls[c].kind = "send" /\ calls[c].pc = "failed"
          /\ calls[c].err = "EventError"

\* C10: a call started after a room id was returned for its user, when the
\* user or the system account is no longer in that room, still returns that
\* room id and runs no computation (no store query).
C10_StaleNeverRefreshed ==
    \A c \in CallIds :
        calls[c].stale =>
            /\ calls[c].room # Nil
            /\ \A d \in calls[c].after : calls[c].room = calls[d].room
            /\ calls[c].room = cache[calls[c].user].room
            /\ comps[c].pc = "none"
            /\ comps[c].roomsQueries = 0 /\ comps[c].queried = <<>>

C10_Witness ==
    \E c \in CallIds :
        /\ calls[c].stale
        /\ calls[c].kind = "get" /\ calls[c].pc = "done"
        /\ SYS \notin users_in[calls[c].room]

\* C11: a resolution whose search ends without a match makes exactly one
\* create_room call, as the system account, with preset private chat, the
\* configured room name, users_default -10, an invite list holding exactly
\* the target user and rate-limiting disabled; a resolution for a user that
\* shares no room with the system account ends that way, and returns the
\* room id create_room produced.
C11_CreateRoomParameters ==
    \A c \in CallIds :
        /\ Len(createLog[c]) <= 1
        /\ comps[c].searchEnded /\ ~comps[c].matched => Len(createLog[c]) = 1
        /\ comps[c].shared0 = {} /\ comps[c].pc = "done" =>
              /\ ~comps[c].matched
              /\ Len(createLog[c]) = 1
              /\ comps[c].info # Nil
              /\ comps[c].room = comps[c].info
              /\ calls[c].room = comps[c].info
        /\ \A i \in 1..Len(createLog[c]) :
              LET a == createLog[c][i]
              IN  /\ a.requester = create_requester(SYS)
                  /\ a.preset = "private_chat"
                  /\ a.name = server_notices_room_name
                  /\ a.users_default = -10
                  /\ a.invite = <<comps[c].user>>
                  /\ a.ratelimit = FALSE
                  /\ a.displayname = server_notices_mxid_display_name

C11_Witness ==
    \E c \in CallIds :
        /\ comps[c].shared0 = {} /\ comps[c].pc = "done"
        /\ Len(comps[c].rooms) >= 1
        /\ Len(createLog[c]) = 1
        /\ calls[c].room = comps[c].info
        /\ comps[c].info > InitRooms

\* C12: while the rooms-for-user query or a users_in_room query of a
\* resolution is outstanding it has made no create_room call; once it has
\* made one, the rooms-for-user query has returned, the member set of every
\* returned room has been queried, in order, and none held the system account.
C12_SearchBeforeCreate ==
    \A c \in CallIds :
        /\ comps[c].pc \in {"rooms", "users"} => createLog[c] = <<>>
        /\ createLog[c] # <<>> =>
              /\ comps[c].pc \in {"create", "done", "failed"}
              /\ comps[c].roomsQueries = 1
              /\ comps[c].queried = comps[c].rooms
              /\ comps[c].idx = Len(comps[c].rooms) + 1
              /\ ~comps[c].matched
              /\ \A i \in 1..Len(comps[c].rooms) : SYS \notin users_in[comps[c].rooms[i]]

C12_Witness ==
    \E c \in CallIds :
        /\ createLog[c] # <<>>
        /\ Len(comps[c].rooms) = 2
        /\ comps[c].queried = comps[c].rooms
        /\ comps[c].pc = "done"

\* C13: a step that starts a call for a user for whom a room id has already
\* been returned starts no computation (so issues no rooms-for-user and no
\* users_in_room query), makes no create_room call, leaves the cache
\* unchanged and hands the caller the cached room id at once.
C13_CacheHitNoIO ==
    [][\A c \in CallIds :
         (/\ calls[c].pc = "unused"
          /\ calls'[c].pc # "unused"
          /\ returned[calls'[c].user] # {})
         => /\ comps' = comps
            /\ createLog' = createLog
            /\ cache' = cache
            /\ calls'[c].pc \in {"done", "await_event"}
            /\ calls'[c].room = cache[calls'[c].user].room
            /\ calls'[c].room \in returned[calls'[c].user]]_vars

C13_Witness ==
    \E c \in CallIds :
        /\ calls[c].after # {}
        /\ calls[c].pc = "done"
        /\ comps[c] = NoComp
        /\ calls[c].room = cache[calls[c].user].room

\* C14: a resolution that ends with a match scanned the rooms in the order
\* the store returned them, returns the first of them that holds the system
\* account, and has queried the member sets of exactly the rooms up to and
\* including that one.
C14_FirstMatchWins ==
    \A c \in CallIds :
        comps[c].matched =>
            LET rs == comps[c].rooms
                i == comps[c].idx
            IN  /\ i \in 1..Len(rs)
                /\ rs = SubSeq(rooms_of[comps[c].user], 1, Len(rs))
                /\ comps[c].room = rs[i]
                /\ SYS \in users_in[rs[i]]
                /\ \A j \in 1..(i - 1) : SYS \notin users_in[rs[j]]
                /\ comps[c].queried = SubSeq(rs, 1, i)
                /\ createLog[c] = <<>>

C14_Witness ==
    \E c \in CallIds :
        /\ comps[c].matched
        /\ Len(comps[c].rooms) = 2
        /\ \A j \in 1..2 : SYS \in users_in[comps[c].rooms[j]]
        /\ comps[c].room = comps[c].rooms[1]
        /\ comps[c].queried = <<comps[c].rooms[1]>>
        /\ calls[c].room = comps[c].rooms[1]

\* C15: resolutions of different users do not interact. A caller only ever
\* waits on an in-flight resolution of its own user, a pending cache entry
\* is owned by a resolution of that user, a call started with no resolution
\* of its own user in flight or succeeded runs its own computation whatever
\* the state of other users, and no step changes the cache entry, the
\* computations or the callers of two different users.
ChangedFor(u) ==
    \/ cache'[u] # cache[u]
    \/ \E c \in CallIds : comps'[c] # comps[c] /\ comps'[c].user = u
    \/ \E c \in CallIds : calls'[c] # calls[c] /\ calls'[c].user = u

C15_PerUserIndependence ==
    /\ [](\A c \in CallIds :
            /\ calls[c].attached # 0 =>
                  comps[calls[c].attached].user = calls[c].user
            /\ calls[c].pc = "await_room" =>
                  comps[calls[c].attached].pc \in InFlight
            /\ (calls[c].pc # "unused" /\ calls[c].overlap = {} /\ calls[c].after = {}) =>
                  calls[c].attached = c)
    /\ [](\A u \in Users :
            cache[u].state = "pending" => comps[cache[u].owner].user = u)
    /\ [][\A u, v \in Users : u # v => ~(ChangedFor(u) /\ ChangedFor(v))]_vars

C15_Witness ==
    \E c1, c2 \in CallIds :
        /\ comps[c1].user # comps[c2].user
        /\ comps[c1].pc \in InFlight /\ comps[c2].pc \in InFlight
        /\ cache[comps[c1].user].owner = c1
        /\ cache[comps[c2].user].owner = c2

\* create_room calls made on behalf of two callers (counted once when they
\* share a computation)
CreatesFor(c1, c2) ==
    LET o1 == calls[c1].attached
        o2 == calls[c2].attached
    IN  Len(createLog[o1]) + (IF o2 # o1 THEN Len(createLog[o2]) ELSE 0)

\* two send_notice calls for one user, the second started while the first
\* was waiting for the room, both completed successfully
ConcurrentSendsDone(c1, c2) ==
    /\ c1 \in calls[c2].overlap
    /\ calls[c1].kind = "send" /\ calls[c2].kind = "send"
    /\ calls[c1].pc = "done" /\ calls[c2].pc = "done"

\* C16 as stated: concurrent successful send_notice calls for a never-resolved
\* user make exactly one create_room call and submit one event each, all with
\* the same room id.
C16_Original ==
    \A c2 \in CallIds : \A c1 \in CallIds :
        ConcurrentSendsDone(c1, c2) =>
            /\ CreatesFor(c1, c2) = 1
            /\ Len(eventLog[c1]) = 1 /\ Len(eventLog[c2]) = 1
            /\ eventLog[c1][1].room_id = eventLog[c2][1].room_id

\* C16 amended: concurrent successful send_notice calls for a never-resolved
\* user make at most one create_room call (exactly one when the search found
\* no room shared with the system account, none when it found one) and submit
\* exactly one event each, all with the same room id, the one resolved.
C16_ConcurrentSends ==
    \A c2 \in CallIds : \A c1 \in CallIds :
        ConcurrentSendsDone(c1, c2) =>
            /\ CreatesFor(c1, c2) <= 1
            /\ (CreatesFor(c1, c2) = 1) <=> ~comps[calls[c1].attached].matched
            /\ calls[c1].attached = calls[c2].attached
            /\ Len(eventLog[c1]) = 1 /\ Len(eventLog[c2]) = 1
            /\ eventLog[c1][1].room_id = eventLog[c2][1].room_id
            /\ eventLog[c1][1].room_id = comps[calls[c1].attached].room

C16_Witness ==
    \E c2 \in CallIds : \E c1 \in CallIds :
        /\ ConcurrentSendsDone(c1, c2)
        /\ CreatesFor(c1, c2) = 1
        /\ Len(eventLog[c1]) = 1 /\ Len(eventLog[c2]) = 1
        /\ eventLog[c1][1].room_id = eventLog[c2][1].room_id

\* C17: a send_notice call that failed in the event creation handler leaves
\* its user's cached room id in place (the failing step does not touch the
\* cache), and a send_notice call started after that failure uses the same
\* room id without running a computation (no store query, no create_room).
C17_DispatchFailureKeepsCache ==
    /\ [](\A c \in CallIds :
            calls[c].err = "EventError" =>
                /\ calls[c].room # Nil
                /\ cache[calls[c].user].state = "done"
                /\ cache[calls[c].user].room = calls[c].room)
    /\ [](\A c2 \in CallIds : \A d \in calls[c2].afterEventFail :
            /\ calls[c2].room = calls[d].room
            /\ comps[c2] = NoComp
            /\ createLog[c2] = <<>>
            /\ calls[c2].kind = "send" =>
                  /\ Len(eventLog[c2]) = 1
                  /\ eventLog[c2][1].room_id = calls[d].room)
    /\ [][(\E c \in CallIds : calls'[c].err = "EventError" /\ calls[c].err # "EventError")
            => cache' = cache]_vars

C17_Witness ==
    \E c2 \in CallIds : \E d \in calls[c2].afterEventFail :
        /\ calls[c2].kind = "send" /\ calls[c2].pc = "done"
        /\ calls[d].kind = "send" /\ calls[d].pc = "failed"
        /\ eventLog[c2][1].room_id = eventLog[d][1].room_id
        /\ cache[calls[c2].user].room = calls[d].room
        /\ comps[c2] = NoComp

\* room r was produced for user u by a resolution for u: either its search
\* found r in u's rooms holding the system account, or its create_room call,
\* which invited u, returned r
Provenance(u, r) ==
    \E o \in CallIds :
        /\ comps[o].user = u
        /\ comps[o].pc = "done"
        /\ comps[o].room = r
        /\ \/ /\ comps[o].matched
              /\ comps[o].idx \in 1..Len(comps[o].rooms)
              /\ r = comps[o].rooms[comps[o].idx]
              /\ SYS \in users_in[r]
           \/ /\ ~comps[o].matched
              /\ Len(createLog[o]) = 1
              /\ createLog[o][1].invite = <<u>>
              /\ r = comps[o].info

\* C18: every room id returned to a caller of get_notice_room_for_user(user),
\* and every room id placed in an event by send_notice(user, ...), was found
\* by a search for that user in a room holding the system account or was
\* returned by a create_room call that invited that user; a room created for
\* one user reaches a caller for another user only through that user's own
\* search.
C18_Provenance ==
    /\ \A u \in Users : \A r \in returned[u] : Provenance(u, r)
    /\ \A c \in CallIds :
          /\ calls[c].room # Nil => Provenance(calls[c].user, calls[c].room)
          /\ \A i \in 1..Len(eventLog[c]) :
                Provenance(calls[c].user, eventLog[c][i].room_id)
          /\ \A o \in CallIds :
                (/\ comps[o].info # Nil
                 /\ calls[c].room = comps[o].info
                 /\ comps[o].user # calls[c].user)
                => \E o2 \in CallIds : /\ comps[o2].user = calls[c].user
                                       /\ comps[o2].matched
                                       /\ comps[o2].room = calls[c].room

C18_Witness ==
    \E c1, c2 \in CallIds :
        /\ calls[c1].user # calls[c2].user
        /\ calls[c1].kind = "send" /\ calls[c2].kind = "get"
        /\ calls[c1].room # Nil /\ calls[c2].room # Nil
        /\ eventLog[c1] # <<>>
        /\ comps[c1].info = calls[c1].room
        /\ comps[c2].matched

\* every collaborator call eventually returns a result or a failure
CollaboratorsRespond ==
    \A c \in CallIds :
        /\ WF_vars(RoomsReturn(c) \/ UsersReturn(c) \/ StoreFail(c))
        /\ WF_vars(CreateReturn(c) \/ CreateFail(c))
        /\ WF_vars(EventReturn(c) \/ EventFail(c))

SpecLive == Init /\ [][NextDispatcher]_vars /\ CollaboratorsRespond

\* C19: provided every collaborator call eventually returns a result or a
\* failure, every started get_notice_room_for_user or send_notice call that
\* is waiting (for the room or for the event submission) eventually ends,
\* with a result or with an error.
C19_NoStuckWaiters ==
    \A c \in CallIds :
        (calls[c].pc \in {"await_room", "await_event"})
            ~> (calls[c].pc \in {"done", "failed"})

C19_Witness ==
    \E o, c \in CallIds :
        /\ c # o
        /\ calls[c].attached = o
        /\ calls[c].kind = "send"
        /\ comps[o].pc = "failed"
        /\ calls[c].pc = "failed" /\ calls[c].err = comps[o].err
====
